---- MODULE Spec2Model ----
(***************************************************************************)
(* CADomatic, src/rag_builder.py: the crawler (is_excluded_url,            *)
(* crawl_wiki) and the index build (build_vectorstore).                    *)
(*                                                                         *)
(* URLs, hrefs and page texts are TLA+ strings; the string functions of    *)
(* the source (lower, in, startswith, strip, join, urljoin) are computed   *)
(* character by character.  The web is a function from URLs to the content *)
(* a successful GET returns; which GET fails is chosen step by step.       *)
(***************************************************************************)
EXTENDS Integers, Sequences, FiniteSets, TLC

VARIABLES
    site,        \* the web: URL -> [hrefs, lines] returned by a successful GET
    start_url,   \* crawl_wiki's argument
    max_pages,   \* crawl_wiki's argument
    visited,     \* crawl_wiki's local set
    to_visit,    \* crawl_wiki's local list (the pending queue)
    pages,       \* crawl_wiki's local list of {"url", "text"} records
    pc,          \* the statement the program is at
    caller,      \* who called crawl_wiki: "test" or "build"
    requests,    \* every URL requests.get was called with, in call order
    out,         \* what print wrote, in order
    returned,    \* the lists returned by the calls of crawl_wiki so far
    docs,        \* build_vectorstore's docs (the chunks)
    split_calls, \* number of calls of splitter.create_documents
    embedded,    \* the chunk texts handed to the embedder, in order
    saved,       \* the vector stores written by save_local, in order
    splitter,    \* the splitters constructed so far, each with its two fields
    url_arg,     \* argument of a direct call of is_excluded_url
    excluded_ret \* what that call returned (read at pc = "filter_ret")

vars == <<site, start_url, max_pages, visited, to_visit, pages, pc, caller,
          requests, out, returned, docs, split_calls, embedded, saved,
          splitter, url_arg, excluded_ret>>

build_vars == <<docs, split_calls, embedded, saved, splitter>>
filter_vars == <<url_arg, excluded_ret>>

(***************************************************************************)
(* Bounds of the model.                                                    *)
(***************************************************************************)
MaxBudget == 3
MaxLinks == 2
MaxText == 5
MaxChunk == 4

(***************************************************************************)
(* Python's str operations.                                                *)
(***************************************************************************)
UpperToLower ==
    [A |-> "a", B |-> "b", C |-> "c", D |-> "d", E |-> "e", F |-> "f",
     G |-> "g", H |-> "h", I |-> "i", J |-> "j", K |-> "k", L |-> "l",
     M |-> "m", N |-> "n", O |-> "o", P |-> "p", Q |-> "q", R |-> "r",
     S |-> "s", T |-> "t", U |-> "u", V |-> "v", W |-> "w", X |-> "x",
     Y |-> "y", Z |-> "z"]

CharAt(s, i) == SubSeq(s, i, i)

LowerChar(c) == IF c \in DOMAIN UpperToLower THEN UpperToLower[c] ELSE c

RECURSIVE LowerFrom(_, _)
LowerFrom(s, i) ==
    IF i > Len(s) THEN "" ELSE LowerChar(CharAt(s, i)) \o LowerFrom(s, i + 1)

\* str.lower()
lower(s) == LowerFrom(s, 1)

\* sub in s
Contains(s, sub) ==
    \E i \in 1..(Len(s) - Len(sub) + 1) : SubSeq(s, i, i + Len(sub) - 1) = sub

\* s.startswith(prefix)
startswith(s, prefix) ==
    Len(prefix) <= Len(s) /\ SubSeq(s, 1, Len(prefix)) = prefix

Whitespace == {" ", "\t", "\n", "\r"}

RECURSIVE LStrip(_)
LStrip(s) ==
    IF s # "" /\ CharAt(s, 1) \in Whitespace
    THEN LStrip(SubSeq(s, 2, Len(s))) ELSE s

RECURSIVE RStrip(_)
RStrip(s) ==
    IF s # "" /\ CharAt(s, Len(s)) \in Whitespace
    THEN RStrip(SubSeq(s, 1, Len(s) - 1)) ELSE s

\* str.strip()
strip(s) == LStrip(RStrip(s))

\* sep.join(parts), put together by halves
RECURSIVE join(_, _)
join(sep, parts) ==
    IF parts = <<>> THEN ""
    ELSE IF Len(parts) = 1 THEN parts[1]
    ELSE LET h == Len(parts) \div 2
         IN  join(sep, SubSeq(parts, 1, h)) \o sep
             \o join(sep, SubSeq(parts, h + 1, Len(parts)))

(***************************************************************************)
(* Step 2 of the source: the crawler's configuration.                      *)
(***************************************************************************)
BASE_URL_WIKI == "https://wiki.freecad.org/Power_users_hub"
BASE_URL_GITHUB == "https://github.com/shaise/FreeCAD_FastenersWB"

DOMAIN_WHITELIST == <<"https://wiki.freecad.org", "https://github.com/shaise">>

LANG_IDENTIFIERS ==
    <<"/id", "/de", "/tr", "/es", "/fr", "/hr", "/it", "/pl",
      "/pt", "/pt-br", "/ro", "/fi", "/sv", "/cs", "/ru", "/zh-cn",
      "/zh-tw", "/ja", "/ko">>

\* "wiki.freecad.org" in url_lower
IsWikiUrl(url_lower) == Contains(url_lower, "wiki.freecad.org")

HasLangIdentifier(url_lower) ==
    \E k \in 1..Len(LANG_IDENTIFIERS) : Contains(url_lower, LANG_IDENTIFIERS[k])

IsAssetOrEdit(url_lower) ==
    \/ Contains(url_lower, ".jpg")
    \/ Contains(url_lower, ".png")
    \/ Contains(url_lower, "edit&section")

\* (url_lower is bound by a quantifier so that it is computed once per call)
is_excluded_url(url) ==
    \E url_lower \in {lower(url)} :
        IF IsWikiUrl(url_lower) /\ HasLangIdentifier(url_lower)
        THEN TRUE
        ELSE IsAssetOrEdit(url_lower)

(***************************************************************************)
(* urllib.parse.urljoin(base, href), for the hrefs of the model: an href   *)
(* with a scheme, a path from the root ("/x"), a path relative to the      *)
(* base's directory ("x"), and the empty href.  It raises ValueError       *)
(* ("Invalid IPv6 URL") when the href's host has a "[" without its "]".    *)
(***************************************************************************)
HasScheme(href) == startswith(href, "https://") \/ startswith(href, "http://")

\* index of the first "/" of s at or after position i, Len(s) + 1 if none
RECURSIVE SlashFrom(_, _)
SlashFrom(s, i) ==
    IF i > Len(s) THEN Len(s) + 1
    ELSE IF CharAt(s, i) = "/" THEN i
    ELSE SlashFrom(s, i + 1)

\* index of the last "/" of s at or before position i, 0 if none
RECURSIVE SlashUpTo(_, _)
SlashUpTo(s, i) ==
    IF i < 1 THEN 0
    ELSE IF CharAt(s, i) = "/" THEN i
    ELSE SlashUpTo(s, i - 1)

AuthorityStart(u) == IF startswith(u, "https://") THEN 9 ELSE 8

\* scheme://host of an absolute URL
Origin(u) == SubSeq(u, 1, SlashFrom(u, AuthorityStart(u)) - 1)

\* the host part of an href that has one
Netloc(href) ==
    LET from == IF HasScheme(href) THEN AuthorityStart(href) ELSE 3
    IN  SubSeq(href, from, SlashFrom(href, from) - 1)

urljoin_raises(href) ==
    /\ HasScheme(href) \/ startswith(href, "//")
    /\ Contains(Netloc(href), "[") # Contains(Netloc(href), "]")

urljoin(base, href) ==
    IF href = "" THEN base
    ELSE IF HasScheme(href) THEN href
    ELSE IF startswith(href, "//")
         THEN SubSeq(base, 1, AuthorityStart(base) - 3) \o href
    ELSE IF startswith(href, "/") THEN Origin(base) \o href
    ELSE LET o == Origin(base)
             dir == SlashUpTo(base, Len(base))
         IN  IF dir <= Len(o) THEN o \o "/" \o href
             ELSE SubSeq(base, 1, dir) \o href

(***************************************************************************)
(* The web the crawler runs against.  Page(hrefs, lines) is what a         *)
(* successful GET of a URL yields: the href attributes of its <a> tags in  *)
(* document order, and the lines of the text left after the non-content    *)
(* tags are removed (soup.get_text(...).splitlines()).  A URL outside the  *)
(* domain of the web has no page: every GET of it fails.                   *)
(***************************************************************************)
Page(hrefs, lines) == [hrefs |-> hrefs, lines |-> lines]

U_MACROS == "https://wiki.freecad.org/Macros"
U_SCRIPTS == "https://wiki.freecad.org/Scripts"
U_GUI == "https://wiki.freecad.org/Gui"
U_HUB_DE == "https://wiki.freecad.org/Power_users_hub/de"
U_LOGO == "https://wiki.freecad.org/logo.PNG"
U_EDIT == "https://wiki.freecad.org/index.php?title=Macros&action=edit&section=1"
U_OUTSIDE == "https://example.com/a"
U_ISSUES == "https://github.com/shaise/FreeCAD_FastenersWB/issues"
U_SEARCH == "https://github.com/shaise/FreeCAD_FastenersWB/search?q=wiki.freecad.org"
U_OTHER_REPO == "https://github.com/other/repo"

\* a diamond with a repeated link, a relative href and a link back to the root
WikiDiamond ==
    (BASE_URL_WIKI :> Page(<<"/Macros", "Scripts", "/Macros">>,
                           <<"  Power users hub ", "", "\tMacros">>))
    @@ (U_MACROS :> Page(<<"/Gui", "/Power_users_hub">>, <<"Macros">>))
    @@ (U_SCRIPTS :> Page(<<"/Macros", "/Gui">>, <<"Scripts ", " ">>))
    @@ (U_GUI :> Page(<<>>, <<>>))

\* a root with two links inside the whitelist and one outside, no further links
WikiScenario ==
    (BASE_URL_WIKI :> Page(<<"/Macros", BASE_URL_GITHUB, U_OUTSIDE>>, <<"Hub">>))
    @@ (U_MACROS :> Page(<<>>, <<"Macros">>))
    @@ (U_OUTSIDE :> Page(<<"https://wiki.freecad.org/Gui">>, <<"Outside">>))
    @@ (U_GUI :> Page(<<>>, <<"Gui">>))

\* links the filter excludes: a language mirror, an image, an edit action
WikiFiltered ==
    (BASE_URL_WIKI :> Page(<<"/Power_users_hub/de", "/logo.PNG", U_EDIT, "/Scripts">>,
                           <<"Hub">>))
    @@ (U_HUB_DE :> Page(<<"/Macros">>, <<"Hub (de)">>))
    @@ (U_LOGO :> Page(<<>>, <<>>))
    @@ (U_EDIT :> Page(<<"/Macros">>, <<"Edit">>))
    @@ (U_SCRIPTS :> Page(<<"Gui", U_OUTSIDE>>, <<"Scripts">>))
    @@ (U_GUI :> Page(<<>>, <<"Gui">>))
    @@ (U_MACROS :> Page(<<>>, <<"Macros">>))

\* a root whose second href urljoin cannot resolve
WikiBadHref ==
    (BASE_URL_WIKI :> Page(<<"/Macros", "http://[", "/Scripts">>, <<"Hub">>))
    @@ (U_MACROS :> Page(<<"/Gui">>, <<"Macros">>))
    @@ (U_GUI :> Page(<<"/Scripts">>, <<"Gui">>))
    @@ (U_SCRIPTS :> Page(<<>>, <<"Scripts">>))

WikiWebs == {WikiDiamond, WikiScenario, WikiFiltered, WikiBadHref}

GithubLeaf == (BASE_URL_GITHUB :> Page(<<>>, <<"FreeCAD_FastenersWB">>))

GithubRepo ==
    (BASE_URL_GITHUB :> Page(<<"/shaise/FreeCAD_FastenersWB/issues", U_OTHER_REPO,
                               "/shaise/FreeCAD_FastenersWB/search?q=wiki.freecad.org">>,
                             <<"FreeCAD_FastenersWB">>))
    @@ (U_ISSUES :> Page(<<"/shaise/FreeCAD_FastenersWB">>, <<"Issues">>))
    @@ (U_SEARCH :> Page(<<>>, <<"Search">>))
    @@ (U_OTHER_REPO :> Page(<<>>, <<"Other">>))

GithubWebs == {GithubLeaf, GithubRepo}

Sites == {w @@ g : w \in WikiWebs, g \in GithubWebs}

\* every root page with at most MaxLinks links, over two fixed sets of inner pages
RootHrefs == {"/Macros", "Scripts", "http://["}

HrefLists == UNION {[1..k -> RootHrefs] : k \in 0..MaxLinks}

InnerA ==
    (U_MACROS :> Page(<<"/Gui", "/Power_users_hub">>, <<"Macros">>))
    @@ (U_SCRIPTS :> Page(<<"/Macros", "/Gui">>, <<"Scripts">>))
    @@ (U_GUI :> Page(<<>>, <<"Gui">>))

InnerB ==
    (U_MACROS :> Page(<<"/Scripts", "/Gui">>, <<"Macros">>))
    @@ (U_SCRIPTS :> Page(<<"/Scripts/de", U_OUTSIDE>>, <<"Scripts">>))
    @@ (U_GUI :> Page(<<"Macros", "//[">>, <<"Gui">>))

RootedSites ==
    {(BASE_URL_WIKI :> Page(hrefs, <<"Hub">>)) @@ inner @@ GithubLeaf :
        hrefs \in HrefLists, inner \in {InnerA, InnerB}}

\* the arguments crawl_wiki is called with
StartUrls == {BASE_URL_WIKI, BASE_URL_GITHUB, U_HUB_DE, U_OUTSIDE}

\* the web and the start URL of a call
Worlds == (Sites \X StartUrls) \cup (RootedSites \X {BASE_URL_WIKI})
Budgets == (-1..MaxBudget) \cup {10}

(***************************************************************************)
(* crawl_wiki(start_url, max_pages)                                        *)
(***************************************************************************)
\* (mutant) the page budget is not tested
LoopCondNoBudget == to_visit # <<>>

\* line 51: the while condition
LoopCond == to_visit # <<>> /\ Cardinality(visited) < max_pages

\* (mutant) the dequeued URL is not tested against the filter
DiscardVisitedOnly(url) == url \in visited

\* line 53: the dequeued URL is dropped
Discard(url) == url \in visited \/ is_excluded_url(url)

\* line 65: clean
CleanText(lines) ==
    LET kept == SelectSeq(lines, LAMBDA line : strip(line) # "")
    IN  join("\n", [i \in 1..Len(kept) |-> strip(kept[i])])

\* (mutant) any https URL passes
WhitelistedAnyHttps(full) == startswith(full, "https://")

\* line 71
Whitelisted(full) ==
    \E k \in 1..Len(DOMAIN_WHITELIST) : startswith(full, DOMAIN_WHITELIST[k])

\* (mutant) the link is not tested against the filter when it is queued
QueueableUnfiltered(full, vis) == Whitelisted(full) /\ full \notin vis

\* lines 71-72: the link is appended to to_visit
Queueable(full, vis) ==
    Whitelisted(full) /\ full \notin vis /\ ~is_excluded_url(full)

\* lines 69-73 over hrefs none of which raises: what is appended to to_visit
RECURSIVE QueuedLinks(_, _, _)
QueuedLinks(url, hrefs, vis) ==
    IF hrefs = <<>> THEN <<>>
    ELSE LET full == urljoin(url, Head(hrefs))
             rest == QueuedLinks(url, Tail(hrefs), vis)
         IN  IF Queueable(full, vis) THEN <<full>> \o rest ELSE rest

\* the index of the first href urljoin raises on, 0 if there is none
RECURSIVE FirstBadHrefFrom(_, _)
FirstBadHrefFrom(hrefs, i) ==
    IF i > Len(hrefs) THEN 0
    ELSE IF urljoin_raises(hrefs[i]) THEN i
    ELSE FirstBadHrefFrom(hrefs, i + 1)

FirstBadHref(hrefs) == FirstBadHrefFrom(hrefs, 1)

Fetching(url) == [kind |-> "Fetching", url |-> url]
ErrorFetching(url, e) == [kind |-> "Error fetching", url |-> url, e |-> e]
Crawled(n, url) == [kind |-> "Crawled", n |-> n, url |-> url]

\* lines 47-49
CrawlLocals(start) ==
    /\ visited = {}
    /\ to_visit = <<start>>
    /\ pages = <<>>

\* lines 52-54: pop, and continue
Skip ==
    /\ pc = "loop"
    /\ LoopCond
    /\ Discard(Head(to_visit))
    /\ to_visit' = Tail(to_visit)
    /\ UNCHANGED <<site, start_url, max_pages, visited, pages, pc, caller,
                   requests, out, returned, build_vars, filter_vars>>

\* (mutant) the URL is marked visited before it is fetched
FetchFailMarksVisited ==
    /\ pc = "loop"
    /\ LoopCond
    /\ LET url == Head(to_visit)
       IN  /\ ~Discard(url)
           /\ \E e \in {"RequestException", "HTTPError"} :
                 out' = out \o <<Fetching(url), ErrorFetching(url, e)>>
           /\ requests' = Append(requests, url)
           /\ visited' = visited \cup {url}
           /\ to_visit' = Tail(to_visit)
    /\ UNCHANGED <<site, start_url, max_pages, pages, pc, caller,
                   returned, build_vars, filter_vars>>

\* (mutant) the failure is not caught: it leaves crawl_wiki
FetchFailRaises ==
    /\ pc = "loop"
    /\ LoopCond
    /\ LET url == Head(to_visit)
       IN  /\ ~Discard(url)
           /\ out' = Append(out, Fetching(url))
           /\ requests' = Append(requests, url)
           /\ to_visit' = Tail(to_visit)
    /\ pc' = "raised"
    /\ UNCHANGED <<site, start_url, max_pages, visited, pages, caller,
                   returned, build_vars, filter_vars>>

\* lines 52-59 and 74-75: requests.get, raise_for_status or the HTML parser
\* raises; visited.add is not reached
FetchFail ==
    /\ pc = "loop"
    /\ LoopCond
    /\ LET url == Head(to_visit)
       IN  /\ ~Discard(url)
           /\ \E e \in {"RequestException", "HTTPError"} :
                 out' = out \o <<Fetching(url), ErrorFetching(url, e)>>
           /\ requests' = Append(requests, url)
           /\ to_visit' = Tail(to_visit)
    /\ UNCHANGED <<site, start_url, max_pages, visited, pages, pc, caller,
                   returned, build_vars, filter_vars>>

\* lines 52-65 and 74-75: the GET succeeds and visited.add(url) runs, then the
\* text extraction raises before pages.append
ExtractFail ==
    /\ pc = "loop"
    /\ LoopCond
    /\ LET url == Head(to_visit)
       IN  /\ ~Discard(url)
           /\ url \in DOMAIN site
           /\ requests' = Append(requests, url)
           /\ visited' = visited \cup {url}
           /\ to_visit' = Tail(to_visit)
           /\ out' = out \o <<Fetching(url), ErrorFetching(url, "MemoryError")>>
    /\ UNCHANGED <<site, start_url, max_pages, pages, pc, caller,
                   returned, build_vars, filter_vars>>

\* (mutant) visited.add(url) is left out
FetchOkForgetsVisited ==
    /\ pc = "loop"
    /\ LoopCond
    /\ LET url == Head(to_visit)
       IN  /\ ~Discard(url)
           /\ url \in DOMAIN site
           /\ FirstBadHref(site[url].hrefs) = 0
           /\ requests' = Append(requests, url)
           /\ pages' = Append(pages, [url |-> url, text |-> CleanText(site[url].lines)])
           /\ to_visit' = Tail(to_visit) \o QueuedLinks(url, site[url].hrefs, visited)
           /\ out' = Append(out, Fetching(url))
    /\ UNCHANGED <<site, start_url, max_pages, visited, pc, caller,
                   returned, build_vars, filter_vars>>

\* lines 52-73: the whole try block runs
FetchOk ==
    /\ pc = "loop"
    /\ LoopCond
    /\ LET url == Head(to_visit)
       IN  /\ ~Discard(url)
           /\ url \in DOMAIN site
           /\ FirstBadHref(site[url].hrefs) = 0
           /\ requests' = Append(requests, url)
           /\ visited' = visited \cup {url}
           /\ pages' = Append(pages, [url |-> url, text |-> CleanText(site[url].lines)])
           /\ to_visit' = Tail(to_visit) \o QueuedLinks(url, site[url].hrefs, visited')
           /\ out' = Append(out, Fetching(url))
    /\ UNCHANGED <<site, start_url, max_pages, pc, caller,
                   returned, build_vars, filter_vars>>

\* (mutant) the record is appended only after the links are enumerated
LinkFailDropsRecord ==
    /\ pc = "loop"
    /\ LoopCond
    /\ LET url == Head(to_visit)
       IN  /\ ~Discard(url)
           /\ url \in DOMAIN site
           /\ FirstBadHref(site[url].hrefs) # 0
           /\ requests' = Append(requests, url)
           /\ visited' = visited \cup {url}
           /\ to_visit' = Tail(to_visit)
                  \o QueuedLinks(url,
                         SubSeq(site[url].hrefs, 1, FirstBadHref(site[url].hrefs) - 1),
                         visited')
           /\ out' = out \o <<Fetching(url), ErrorFetching(url, "ValueError")>>
    /\ UNCHANGED <<site, start_url, max_pages, pages, pc, caller,
                   returned, build_vars, filter_vars>>

\* lines 52-75: urljoin raises on an href; the links before it are queued, the
\* rest of the for loop is not run
LinkFail ==
    /\ pc = "loop"
    /\ LoopCond
    /\ LET url == Head(to_visit)
       IN  /\ ~Discard(url)
           /\ url \in DOMAIN site
           /\ FirstBadHref(site[url].hrefs) # 0
           /\ requests' = Append(requests, url)
           /\ visited' = visited \cup {url}
           /\ pages' = Append(pages, [url |-> url, text |-> CleanText(site[url].lines)])
           /\ to_visit' = Tail(to_visit)
                  \o QueuedLinks(url,
                         SubSeq(site[url].hrefs, 1, FirstBadHref(site[url].hrefs) - 1),
                         visited')
           /\ out' = out \o <<Fetching(url), ErrorFetching(url, "ValueError")>>
    /\ UNCHANGED <<site, start_url, max_pages, pc, caller,
                   returned, build_vars, filter_vars>>

\* lines 51 and 77-78: the while condition is false; print and return pages
Return ==
    /\ pc = "loop"
    /\ ~LoopCond
    /\ out' = Append(out, Crawled(Len(pages), start_url))
    /\ returned' = Append(returned, pages)
    /\ pc' = IF caller = "test" THEN "done"
             ELSE IF Len(returned) = 0 THEN "line83" ELSE "line84"
    /\ UNCHANGED <<site, start_url, max_pages, visited, to_visit, pages, caller,
                   requests, build_vars, filter_vars>>

\* crawl_wiki called once, with any start URL and any budget
Init ==
    /\ \E w \in Worlds : site = w[1] /\ start_url = w[2]
    /\ max_pages \in Budgets
    /\ CrawlLocals(start_url)
    /\ pc = "loop"
    /\ caller = "test"
    /\ requests = <<>>
    /\ out = <<>>
    /\ returned = <<>>
    /\ docs = <<>>
    /\ split_calls = 0
    /\ embedded = <<>>
    /\ saved = <<>>
    /\ splitter = <<>>
    /\ url_arg = ""
    /\ excluded_ret = FALSE

Next ==
    \/ Skip
    \/ FetchFail
    \/ ExtractFail
    \/ FetchOk
    \/ LinkFail
    \/ Return

Spec == Init /\ [][Next]_vars

(***************************************************************************)
(* Step 3 of the source: build_vectorstore.                                *)
(*                                                                         *)
(* RecursiveCharacterTextSplitter(chunk_size, chunk_overlap) with its      *)
(* defaults: separators "\n\n", "\n", " ", "", the separator kept at the   *)
(* start of the piece that follows it, len as the length function, every   *)
(* chunk stripped of surrounding whitespace and dropped when empty.        *)
(***************************************************************************)
WIKI_MAX_PAGES == 2000
GITHUB_MAX_PAGES == 450
CHUNK_SIZE == 1000
CHUNK_OVERLAP == 150

SEPARATORS == <<"\n\n", "\n", " ", "">>

\* index of the first occurrence of sep in text at or after i, 0 if none
RECURSIVE FindFrom(_, _, _)
FindFrom(text, sep, i) ==
    IF i + Len(sep) - 1 > Len(text) THEN 0
    ELSE IF SubSeq(text, i, i + Len(sep) - 1) = sep THEN i
    ELSE FindFrom(text, sep, i + 1)

\* the pieces of text from position p on, each later piece starting with sep
RECURSIVE PiecesFrom(_, _, _)
PiecesFrom(text, sep, p) ==
    LET q == FindFrom(text, sep, IF p = 0 THEN 1 ELSE p + Len(sep))
        from == IF p = 0 THEN 1 ELSE p
    IN  IF q = 0 THEN <<SubSeq(text, from, Len(text))>>
        ELSE <<SubSeq(text, from, q - 1)>> \o PiecesFrom(text, sep, q)

\* _split_text_with_regex(text, separator, keep_separator = True)
split_text_with_regex(text, sep) ==
    LET splits == IF sep = "" THEN [i \in 1..Len(text) |-> CharAt(text, i)]
                  ELSE PiecesFrom(text, sep, 0)
    IN  SelectSeq(splits, LAMBDA x : x # "")

\* total: the summed length of the pieces of current_doc (the separator the
\* pieces are joined with is "", of length 0)
SumLen(parts) == Len(join("", parts))

\* (mutant) the overlap is not kept: pieces are dropped until none is left
PopCondDropsAll(current, k, len, chunk_size, chunk_overlap) ==
    SumLen(SubSeq(current, k + 1, Len(current))) > 0

\* the condition of _merge_splits' inner while, after k pieces were dropped;
\* total only falls as pieces are dropped, so it holds up to some k and not after
PopCond(current, k, len, chunk_size, chunk_overlap) ==
    LET total == SumLen(SubSeq(current, k + 1, Len(current)))
    IN  total > chunk_overlap \/ (total + len > chunk_size /\ total > 0)

\* the number of pieces the inner while drops: the least k of lo..hi after
\* which its condition is false (found by halving lo..hi)
RECURSIVE PopCount(_, _, _, _, _, _)
PopCount(current, lo, hi, len, chunk_size, chunk_overlap) ==
    IF lo > hi THEN hi + 1
    ELSE LET mid == (lo + hi) \div 2
         IN  IF ~PopCond(current, mid, len, chunk_size, chunk_overlap)
             THEN PopCount(current, lo, mid - 1, len, chunk_size, chunk_overlap)
             ELSE PopCount(current, mid + 1, hi, len, chunk_size, chunk_overlap)

\* _merge_splits' inner while: drop pieces from the front of current_doc
PopFront(current, len, chunk_size, chunk_overlap) ==
    LET k == PopCount(current, 0, Len(current), len, chunk_size, chunk_overlap)
    IN  SubSeq(current, k + 1, Len(current))

\* _join_docs with separator "": the chunk, or <<>> when it strips to nothing
JoinDocs(current) ==
    LET text == strip(join("", current))
    IN  IF text = "" THEN <<>> ELSE <<text>>

\* (mutant) a chunk is emitted as soon as chunk_size would be reached
EmitsAtEarly(splits, current, j, chunk_size) ==
    /\ SumLen(current \o SubSeq(splits, 1, j)) >= chunk_size
    /\ current # <<>> \/ j > 1

\* _merge_splits' test before piece j of splits is appended, when the pieces
\* before it were appended with no chunk emitted: total + _len > chunk_size
\* with current_doc not empty.  Once true it stays true for every later j.
EmitsAt(splits, current, j, chunk_size) ==
    /\ SumLen(current \o SubSeq(splits, 1, j)) > chunk_size
    /\ current # <<>> \/ j > 1

\* the first piece of splits at which a chunk is emitted: the least j of lo..hi
\* with EmitsAt, hi + 1 if there is none (found by halving lo..hi)
RECURSIVE FirstEmit(_, _, _, _, _)
FirstEmit(splits, current, lo, hi, chunk_size) ==
    IF lo > hi THEN hi + 1
    ELSE LET mid == (lo + hi) \div 2
         IN  IF EmitsAt(splits, current, mid, chunk_size)
             THEN FirstEmit(splits, current, lo, mid - 1, chunk_size)
             ELSE FirstEmit(splits, current, mid + 1, hi, chunk_size)

\* _merge_splits(splits, "") from the state (current_doc) of its for loop: the
\* pieces before the first one that emits a chunk are appended to current_doc;
\* at that piece the chunk is emitted, the front of current_doc is dropped, the
\* piece is appended and the loop goes on
RECURSIVE MergeFrom(_, _, _, _)
MergeFrom(splits, current, chunk_size, chunk_overlap) ==
    LET j == FirstEmit(splits, current, 1, Len(splits), chunk_size)
    IN  IF j > Len(splits) THEN JoinDocs(current \o splits)
        ELSE LET full == current \o SubSeq(splits, 1, j - 1)
                 d == splits[j]
             IN  JoinDocs(full)
                 \o MergeFrom(SubSeq(splits, j + 1, Len(splits)),
                        Append(PopFront(full, Len(d), chunk_size, chunk_overlap), d),
                        chunk_size, chunk_overlap)

merge_splits(splits, chunk_size, chunk_overlap) ==
    MergeFrom(splits, <<>>, chunk_size, chunk_overlap)

\* the first separator of seps found in text (the last one, "", matches always)
RECURSIVE PickSeparator(_, _, _)
PickSeparator(text, seps, i) ==
    IF i >= Len(seps) \/ seps[i] = "" \/ Contains(text, seps[i]) THEN i
    ELSE PickSeparator(text, seps, i + 1)

\* _split_text(text, separators)
RECURSIVE SplitText(_, _, _, _)
RECURSIVE SplitPieces(_, _, _, _, _)
SplitText(text, seps, chunk_size, chunk_overlap) ==
    LET k == PickSeparator(text, seps, 1)
        rest == SubSeq(seps, k + 1, Len(seps))
    IN  SplitPieces(split_text_with_regex(text, seps[k]), <<>>, rest,
                    chunk_size, chunk_overlap)

\* the for loop of _split_text over the pieces, good holding _good_splits:
\* the pieces shorter than chunk_size are collected up to the first piece that
\* is not, which is split further (or kept whole when no separator is left)
SplitPieces(splits, good, new_seps, chunk_size, chunk_overlap) ==
    LET long == {i \in 1..Len(splits) : Len(splits[i]) >= chunk_size}
    IN  IF long = {} THEN merge_splits(good \o splits, chunk_size, chunk_overlap)
        ELSE LET i == CHOOSE i \in long : \A k \in long : i <= k
                 piece == splits[i]
             IN  merge_splits(good \o SubSeq(splits, 1, i - 1), chunk_size, chunk_overlap)
                 \o (IF new_seps = <<>> THEN <<piece>>
                     ELSE SplitText(piece, new_seps, chunk_size, chunk_overlap))
                 \o SplitPieces(SubSeq(splits, i + 1, Len(splits)), <<>>, new_seps,
                                chunk_size, chunk_overlap)

split_text(text, chunk_size, chunk_overlap) ==
    SplitText(text, SEPARATORS, chunk_size, chunk_overlap)

\* splitter.create_documents(texts, metadatas) over the crawled pages
RECURSIVE create_documents(_, _, _)
create_documents(ps, chunk_size, chunk_overlap) ==
    IF ps = <<>> THEN <<>>
    ELSE LET chunks == split_text(Head(ps).text, chunk_size, chunk_overlap)
         IN  [i \in 1..Len(chunks) |->
                  [page_content |-> chunks[i], source |-> Head(ps).url]]
             \o create_documents(Tail(ps), chunk_size, chunk_overlap)

\* line 93: the splitter object
Splitter(chunk_size, chunk_overlap) ==
    [chunk_size |-> chunk_size, chunk_overlap |-> chunk_overlap]

\* line 84: pages = wiki_pages + github_pages
BuildPages == returned[1] \o returned[2]

\* (mutant) the early return is left out
NoPagesNever == FALSE

\* line 86
NoPages == BuildPages = <<>>

\* (mutant) visited outlives the call: the second crawl starts with the
\* first crawl's set
CallGithubSharedVisited ==
    /\ pc = "line83"
    /\ start_url' = BASE_URL_GITHUB
    /\ max_pages' = GITHUB_MAX_PAGES
    /\ to_visit' = <<BASE_URL_GITHUB>>
    /\ pages' = <<>>
    /\ pc' = "loop"
    /\ UNCHANGED <<site, visited, caller, requests, out, returned, build_vars,
                   filter_vars>>

\* line 83: the second crawl is called
CallGithub ==
    /\ pc = "line83"
    /\ start_url' = BASE_URL_GITHUB
    /\ max_pages' = GITHUB_MAX_PAGES
    /\ visited' = {}
    /\ to_visit' = <<BASE_URL_GITHUB>>
    /\ pages' = <<>>
    /\ pc' = "loop"
    /\ UNCHANGED <<site, caller, requests, out, returned, build_vars, filter_vars>>

\* lines 86-88
Abort ==
    /\ pc = "line84"
    /\ NoPages
    /\ out' = Append(out, [kind |-> "No pages crawled. Exiting."])
    /\ pc' = "done"
    /\ UNCHANGED <<site, start_url, max_pages, visited, to_visit, pages, caller,
                   requests, returned, build_vars, filter_vars>>

\* lines 90-96
Split ==
    /\ pc = "line84"
    /\ ~NoPages
    /\ splitter' = Append(splitter, Splitter(CHUNK_SIZE, CHUNK_OVERLAP))
    /\ docs' = create_documents(BuildPages, splitter'[1].chunk_size,
                                splitter'[1].chunk_overlap)
    /\ split_calls' = split_calls + 1
    /\ out' = Append(out, [kind |-> "Split", n |-> Len(docs')])
    /\ pc' = "line98"
    /\ UNCHANGED <<site, start_url, max_pages, visited, to_visit, pages, caller,
                   requests, returned, embedded, saved, filter_vars>>

\* lines 98-99: every chunk is embedded and the store is built
Embed ==
    /\ pc = "line98"
    /\ docs # <<>>
    /\ embedded' = [i \in 1..Len(docs) |-> docs[i].page_content]
    /\ pc' = "line101"
    /\ UNCHANGED <<site, start_url, max_pages, visited, to_visit, pages, caller,
                   requests, out, returned, docs, split_calls, saved, splitter,
                   filter_vars>>

\* (mutant) the embedder's failure is caught and the run goes on to the save
EmbedFailSwallowed ==
    /\ pc = "line98"
    /\ pc' = "line101"
    /\ UNCHANGED <<site, start_url, max_pages, visited, to_visit, pages, caller,
                   requests, out, returned, build_vars, filter_vars>>

\* lines 98-99: the embedder (or the store's constructor, which cannot build an
\* index from no vector) raises; build_vectorstore does not catch it
EmbedFail ==
    /\ pc = "line98"
    /\ pc' = "raised"
    /\ UNCHANGED <<site, start_url, max_pages, visited, to_visit, pages, caller,
                   requests, out, returned, build_vars, filter_vars>>

\* lines 101-107
Save ==
    /\ pc = "line101"
    /\ saved' = Append(saved, docs)
    /\ out' = Append(out, [kind |-> "Vectorstore saved to ./vectorstore"])
    /\ pc' = "done"
    /\ UNCHANGED <<site, start_url, max_pages, visited, to_visit, pages, caller,
                   requests, returned, docs, split_calls, embedded, splitter,
                   filter_vars>>

\* lines 105-106: os.makedirs or save_local raises
SaveFail ==
    /\ pc = "line101"
    /\ pc' = "raised"
    /\ UNCHANGED <<site, start_url, max_pages, visited, to_visit, pages, caller,
                   requests, out, returned, build_vars, filter_vars>>

\* build_vectorstore() is called: line 82 calls the first crawl
InitBuild ==
    /\ site \in Sites
    /\ start_url = BASE_URL_WIKI
    /\ max_pages = WIKI_MAX_PAGES
    /\ CrawlLocals(BASE_URL_WIKI)
    /\ pc = "loop"
    /\ caller = "build"
    /\ requests = <<>>
    /\ out = <<>>
    /\ returned = <<>>
    /\ docs = <<>>
    /\ split_calls = 0
    /\ embedded = <<>>
    /\ saved = <<>>
    /\ splitter = <<>>
    /\ url_arg = ""
    /\ excluded_ret = FALSE

NextBuild ==
    \/ Skip
    \/ FetchFail
    \/ ExtractFail
    \/ FetchOk
    \/ LinkFail
    \/ Return
    \/ CallGithub
    \/ Abort
    \/ Split
    \/ Embed
    \/ EmbedFail
    \/ Save
    \/ SaveFail

SpecBuild == InitBuild /\ [][NextBuild]_vars

(***************************************************************************)
(* is_excluded_url called on its own, on URLs put together from a host     *)
(* and up to two further parts.                                            *)
(***************************************************************************)
FilterHosts ==
    {"https://wiki.freecad.org", "https://WIKI.FreeCAD.org",
     "https://github.com/shaise", "https://github.com/shaise/FreeCAD_FastenersWB"}

FilterParts ==
    {"", "/Macros", "/de", "/Power_users_hub/pt-br", "/ZH-CN", "/a.JPG",
     "/logo.png", "?action=edit&section=2", "/wiki.freecad.org", "/x"}

FilterUrls == {h \o a \o b : h \in FilterHosts, a \in FilterParts, b \in FilterParts}

InitFilter ==
    /\ site = GithubLeaf
    /\ start_url = ""
    /\ max_pages = 0
    /\ visited = {}
    /\ to_visit = <<>>
    /\ pages = <<>>
    /\ pc = "filter_call"
    /\ caller = "test"
    /\ requests = <<>>
    /\ out = <<>>
    /\ returned = <<>>
    /\ docs = <<>>
    /\ split_calls = 0
    /\ embedded = <<>>
    /\ saved = <<>>
    /\ splitter = <<>>
    /\ url_arg \in FilterUrls
    /\ excluded_ret = FALSE

\* lines 32-44
CallFilter ==
    /\ pc = "filter_call"
    /\ excluded_ret' = is_excluded_url(url_arg)
    /\ pc' = "filter_ret"
    /\ UNCHANGED <<site, start_url, max_pages, visited, to_visit, pages, caller,
                   requests, out, returned, build_vars, url_arg>>

NextFilter == CallFilter

SpecFilter == InitFilter /\ [][NextFilter]_vars

(***************************************************************************)
(* The splitter called on its own (lines 93-94 with any chunk_size and     *)
(* chunk_overlap < chunk_size), on the page texts crawl_wiki can produce:  *)
(* line 65 applied to every raw text of at most MaxText characters, and    *)
(* texts of 2400 characters.                                               *)
(***************************************************************************)
\* str.splitlines(), for texts whose only line break is "\n"
RECURSIVE splitlines(_)
splitlines(text) ==
    IF text = "" THEN <<>>
    ELSE LET q == FindFrom(text, "\n", 1)
         IN  IF q = 0 THEN <<text>>
             ELSE <<SubSeq(text, 1, q - 1)>> \o splitlines(SubSeq(text, q + 1, Len(text)))

Alphabet == {"a", "b", " ", "\n"}

RawTexts == UNION {{join("", f) : f \in [1..n -> Alphabet]} : n \in 0..MaxText}

\* the texts of the Page Records: line 65 over what get_text returned
Texts == {CleanText(splitlines(raw)) : raw \in RawTexts}

\* s repeated n times
RECURSIVE Rep(_, _)
Rep(s, n) ==
    IF n = 0 THEN ""
    ELSE IF n = 1 THEN s
    ELSE Rep(s, n \div 2) \o Rep(s, n - n \div 2)

\* page texts of 2400 characters, none of them whitespace
LongTexts == {Rep("a", 2400), Rep("FreeCAD_", 300), Rep("0123456789", 240)}

\* a second page, for the lists of two pages
OtherPage == [url |-> U_MACROS, text |-> "ba ab\nb"]

SplitCalls ==
    {<<ps, c, o>> : ps \in {<<[url |-> BASE_URL_WIKI, text |-> t]>> : t \in Texts}
                       \cup {<<[url |-> BASE_URL_WIKI, text |-> t], OtherPage>> :
                                 t \in {u \in Texts : Len(u) = 3}},
                    c \in 1..MaxChunk, o \in 0..(MaxChunk - 1)}

\* the pages and the splitter's parameters of a call
SplitInputs ==
    {in \in SplitCalls : in[3] < in[2]}
    \cup {<<ps, CHUNK_SIZE, CHUNK_OVERLAP>> :
             ps \in {<<[url |-> BASE_URL_WIKI, text |-> t]>> : t \in LongTexts}}

InitSplit ==
    /\ \E in \in SplitInputs :
          /\ pages = in[1]
          /\ splitter = <<Splitter(in[2], in[3])>>
    /\ site = GithubLeaf
    /\ start_url = ""
    /\ max_pages = 0
    /\ visited = {}
    /\ to_visit = <<>>
    /\ pc = "split_call"
    /\ caller = "test"
    /\ requests = <<>>
    /\ out = <<>>
    /\ returned = <<>>
    /\ docs = <<>>
    /\ split_calls = 0
    /\ embedded = <<>>
    /\ saved = <<>>
    /\ url_arg = ""
    /\ excluded_ret = FALSE

\* line 94
CallSplit ==
    /\ pc = "split_call"
    /\ docs' = create_documents(pages, splitter[1].chunk_size, splitter[1].chunk_overlap)
    /\ split_calls' = split_calls + 1
    /\ pc' = "split_ret"
    /\ UNCHANGED <<site, start_url, max_pages, visited, to_visit, pages, caller,
                   requests, out, returned, embedded, saved, splitter, filter_vars>>

NextSplit == CallSplit

SpecSplit == InitSplit /\ [][NextSplit]_vars

\* crawl_wiki runs on: the interpreter executes the next statement
FairSpec == Spec /\ WF_vars(Next)

(***************************************************************************)
(* What the claims speak of.                                               *)
(***************************************************************************)
FetchErrors == {"RequestException", "HTTPError"}

IsError(line) == line.kind = "Error fetching"
IsFetchError(line) == line.kind = "Error fetching" /\ line.e \in FetchErrors

\* the page was not obtained: the GET, the status check, the parse or the
\* text extraction raised (every error but that of the link enumeration)
IsPageError(line) == line.kind = "Error fetching" /\ line.e # "ValueError"

\* no page has failed to be obtained so far
NoFetchFailed == \A i \in 1..Len(out) : ~IsPageError(out[i])

\* nothing at all has been caught so far
NoFailure == \A i \in 1..Len(out) : ~IsError(out[i])

Urls(ps) == [i \in 1..Len(ps) |-> ps[i].url]

Take(seq, n) == SubSeq(seq, 1, IF n < 0 THEN 0 ELSE IF n > Len(seq) THEN Len(seq) ELSE n)

\* the step appends an "Error fetching" line
ErrorStep == Len(out') > Len(out) /\ IsError(out'[Len(out')])
FetchErrorStep == Len(out') > Len(out) /\ IsFetchError(out'[Len(out')])

\* the URL starts with one of the two allowed prefixes, written out
AllowedPrefix(u) ==
    \/ startswith(u, "https://wiki.freecad.org")
    \/ startswith(u, "https://github.com/shaise")

\* the while loop's stop condition, written out
StopCond == Len(to_visit) = 0 \/ Cardinality(visited) >= max_pages

(***************************************************************************)
(* The site graph and its breadth-first order, computed apart from the     *)
(* crawler: a node is marked when it is first put on the queue.            *)
(***************************************************************************)
\* the links of page u: resolvable, whitelisted, not excluded, in page order
RECURSIVE GraphLinks(_, _)
GraphLinks(u, hrefs) ==
    IF hrefs = <<>> THEN <<>>
    ELSE LET rest == GraphLinks(u, Tail(hrefs))
         IN  IF urljoin_raises(Head(hrefs)) THEN rest
             ELSE LET full == urljoin(u, Head(hrefs))
                  IN  IF AllowedPrefix(full) /\ ~is_excluded_url(full)
                      THEN <<full>> \o rest ELSE rest

Successors(u) == IF u \in DOMAIN site THEN GraphLinks(u, site[u].hrefs) ELSE <<>>

\* the members of links not in seen, each once, in order
RECURSIVE Fresh(_, _)
Fresh(links, seen) ==
    IF links = <<>> THEN <<>>
    ELSE IF Head(links) \in seen THEN Fresh(Tail(links), seen)
    ELSE <<Head(links)>> \o Fresh(Tail(links), seen \cup {Head(links)})

RECURSIVE BfsFrom(_, _)
BfsFrom(queue, seen) ==
    IF queue = <<>> THEN <<>>
    ELSE LET new == Fresh(Successors(Head(queue)), seen)
         IN  <<Head(queue)>>
             \o BfsFrom(Tail(queue) \o new, seen \cup {new[i] : i \in 1..Len(new)})

BfsOrder == IF is_excluded_url(start_url) THEN <<>> ELSE BfsFrom(<<start_url>>, {start_url})

\* the URLs whose page was obtained, in fetch order
RECURSIVE FetchedOk(_)
FetchedOk(lines) ==
    IF lines = <<>> THEN <<>>
    ELSE IF Head(lines).kind # "Fetching" THEN FetchedOk(Tail(lines))
    ELSE IF Len(lines) >= 2 /\ IsPageError(lines[2]) THEN FetchedOk(Tail(lines))
    ELSE <<Head(lines).url>> \o FetchedOk(Tail(lines))

(***************************************************************************)
(* The claims.                                                             *)
(***************************************************************************)

\* C1 (as stated): within one call of crawl_wiki no URL is passed to
\* requests.get twice, whatever fetches fail.
C1_FetchedAtMostOnce ==
    \A i, j \in 1..Len(requests) : requests[i] = requests[j] => i = j

\* C2: for max_pages >= 0, visited never has more than max_pages elements, the
\* accumulated and the returned list never more than max_pages records, no
\* GET is issued once len(visited) has reached max_pages, and with
\* max_pages = 0 nothing is fetched and the result is empty.
C2_PageBudget ==
    /\ [](max_pages >= 0 =>
            /\ Cardinality(visited) <= max_pages
            /\ Len(pages) <= max_pages
            /\ \A k \in 1..Len(returned) : Len(returned[k]) <= max_pages
            /\ (max_pages = 0 => requests = <<>> /\ pages = <<>>))
    /\ [][Cardinality(visited) >= max_pages => requests' = requests]_vars

\* C2's case: the crawl stopped on its budget with URLs still pending
C2_Witness ==
    /\ pc = "done"
    /\ max_pages = 2
    /\ Cardinality(visited) = 2
    /\ Len(returned[1]) = 2
    /\ to_visit # <<>>

\* C3 (as stated): the returned records are, in order, the pages successfully
\* fetched, and when no fetch has failed their URLs are the breadth-first
\* order of the site graph from start_url (cut at max_pages).  A fetch counts
\* as failed here whenever the page's text was not obtained.
C3_BreadthFirstOrder ==
    pc = "done" =>
        /\ Urls(returned[1]) = FetchedOk(out)
        /\ NoFetchFailed => Urls(returned[1]) = Take(BfsOrder, max_pages)

\* C4: a step in which the fetch fails leaves visited and pages as they were,
\* removes only the head of to_visit and stays in the loop.
C4_FetchFailureSkipped ==
    [][FetchErrorStep =>
          /\ visited' = visited
          /\ pages' = pages
          /\ to_visit' = Tail(to_visit)
          /\ requests' = Append(requests, Head(to_visit))
          /\ pc' = "loop"]_vars

\* C4's case: a fetch failed and a later URL of the queue was fetched and kept
C4_Witness ==
    \E i \in 1..Len(out) : \E j \in (i + 1)..Len(out) :
        /\ IsFetchError(out[i])
        /\ out[j].kind = "Fetching"
        /\ out[j].url # out[i].url
        /\ \E k \in 1..Len(pages) : pages[k].url = out[j].url

\* C5 (as stated): a step in which any failure is caught appends no Page
\* Record and stays in the loop.
C5_FailureYieldsNoRecord ==
    [][ErrorStep => pages' = pages /\ pc' = "loop"]_vars

\* C5 (amended): a step in which a failure is caught stays in the loop; it
\* appends no Page Record when the fetch, the parse or the text extraction
\* failed, and exactly the page's own record when the link enumeration failed.
C5_FailureCaught ==
    [][ErrorStep =>
          /\ pc' = "loop"
          /\ SubSeq(to_visit', 1, Len(to_visit) - 1) = Tail(to_visit)
          /\ IF out'[Len(out')].e = "ValueError"
             THEN /\ Len(pages') = Len(pages) + 1
                  /\ SubSeq(pages', 1, Len(pages)) = pages
                  /\ pages'[Len(pages')].url = Head(to_visit)
             ELSE pages' = pages]_vars

\* C5's case: link enumeration failed on a page, its record was kept and the
\* crawl went on to fetch another page
C5_Witness ==
    \E i \in 1..Len(out) :
        /\ IsError(out[i])
        /\ out[i].e = "ValueError"
        /\ \E k \in 1..Len(pages) : pages[k].url = out[i].url
        /\ \E j \in (i + 1)..Len(out) : out[j].kind = "Fetching"

\* C6: every URL fetched or pending, other than start_url, starts with an
\* allowed prefix; and the crawl of a root with two links inside and one
\* outside the whitelist (no further links, no failure, max_pages = 10)
\* returns exactly 3 Page Records and never fetches the outside link.
C6_WhitelistOnly ==
    /\ \A i \in 1..Len(requests) :
          requests[i] # start_url => AllowedPrefix(requests[i])
    /\ \A i \in 1..Len(to_visit) :
          to_visit[i] # start_url => AllowedPrefix(to_visit[i])
    /\ ( /\ site = WikiScenario @@ GithubLeaf
         /\ start_url = BASE_URL_WIKI
         /\ max_pages = 10
         /\ pc = "done"
         /\ NoFailure )
       => /\ Len(returned[1]) = 3
          /\ \A i \in 1..Len(requests) : requests[i] # U_OUTSIDE

\* C6's case: the scenario's crawl has returned
C6_Witness ==
    /\ site = WikiScenario @@ GithubLeaf
    /\ start_url = BASE_URL_WIKI
    /\ max_pages = 10
    /\ pc = "done"
    /\ NoFailure
    /\ Urls(returned[1]) = <<BASE_URL_WIKI, U_MACROS, BASE_URL_GITHUB>>

\* C7: no URL that is_excluded_url excludes is fetched or is the url of a
\* record; with an excluded start_url nothing is fetched and the result is
\* empty.
C7_ExcludedNeverFetched ==
    /\ \A u \in {requests[i] : i \in 1..Len(requests)}
                \cup {pages[i].url : i \in 1..Len(pages)}
                \cup UNION {{returned[k][i].url : i \in 1..Len(returned[k])} :
                               k \in 1..Len(returned)} :
          ~is_excluded_url(u)
    /\ is_excluded_url(start_url) =>
          /\ requests = <<>>
          /\ pages = <<>>
          /\ pc = "done" => returned = << <<>> >>

\* C7's case: a crawl of an excluded root has returned
C7_Witness ==
    /\ is_excluded_url(start_url)
    /\ start_url \in DOMAIN site
    /\ max_pages > 0
    /\ pc = "done"

\* C8 (as stated): on a URL of the wiki host that holds a language marker
\* is_excluded_url returns true; on a URL of the code-hosting host with no
\* image extension and no edit marker it returns false.
C8_DomainScoped ==
    pc = "filter_ret" =>
        LET host == lower(Netloc(url_arg))
            low == lower(url_arg)
        IN  /\ (host = "wiki.freecad.org" /\ HasLangIdentifier(low))
                  => excluded_ret = TRUE
            /\ (host = "github.com" /\ ~IsAssetOrEdit(low))
                  => excluded_ret = FALSE

\* C9: crawl_wiki terminates, and it leaves its loop exactly when the queue is
\* empty or len(visited) >= max_pages.
C9_Terminates ==
    /\ <>(pc = "done")
    /\ [][pc = "loop" /\ pc' # "loop" => StopCond /\ pc' = "done"]_vars
    /\ [][pc = "loop" /\ StopCond => pc' = "done"]_vars

\* C9's case: a crawl that fetched several pages, met a failure and ended
C9_Witness ==
    /\ pc = "done"
    /\ Len(requests) >= 3
    /\ ~NoFailure
    /\ to_visit = <<>>

\* C10: when both crawls together return no Page Record, build_vectorstore
\* ends without a call of the splitter, of the embedder or of save_local.
C10_EmptyCorpusAborts ==
    (Len(returned) = 2 /\ returned[1] \o returned[2] = <<>>) =>
        /\ pc \in {"line84", "done"}
        /\ split_calls = 0
        /\ docs = <<>>
        /\ embedded = <<>>
        /\ saved = <<>>

\* C10's case: both crawls returned nothing and build_vectorstore has ended
C10_Witness ==
    /\ Len(returned) = 2
    /\ returned[1] \o returned[2] = <<>>
    /\ Len(requests) >= 2
    /\ pc = "done"

\* the positions of the "Crawled" lines of out
CrawledAt == {i \in 1..Len(out) : out[i].kind = "Crawled"}

\* out is: the first crawl's lines, its "Crawled" line, the second crawl's
\* lines, its "Crawled" line, and then no line of a crawl
CrawlsEndedInOrder ==
    \E i, j \in CrawledAt :
        /\ i < j
        /\ CrawledAt = {i, j}
        /\ out[i].url = BASE_URL_WIKI
        /\ out[j].url = BASE_URL_GITHUB
        /\ \A k \in (j + 1)..Len(out) : out[k].kind \notin {"Fetching", "Error fetching"}

\* C11: in a run of build_vectorstore the store is saved at most once; when it
\* is saved both crawls have ended, the first root's before the second's, no
\* request is made after it, and the chunks handed to the embedder are all the
\* chunks of all the pages, which are what is saved; a failure of the embedder
\* ends the run, with nothing saved then or later.
C11_SavedOnceAtEnd ==
    /\ [](/\ Len(saved) <= 1
          /\ saved # <<>> =>
                /\ pc = "done"
                /\ Len(returned) = 2
                /\ CrawlsEndedInOrder
                /\ split_calls = 1
                /\ Len(embedded) = Len(docs)
                /\ \A i \in 1..Len(docs) : embedded[i] = docs[i].page_content
                /\ saved[1] = docs
                /\ \A k \in 1..Len(BuildPages) :
                      BuildPages[k].text # "" =>
                          \E i \in 1..Len(docs) : docs[i].source = BuildPages[k].url
          /\ pc = "raised" => saved = <<>>)
    /\ [][saved' # saved => pc = "line101" /\ requests' = requests]_vars
    /\ [][pc = "line98" /\ embedded' = embedded => pc' = "raised"]_vars
    /\ [][pc = "raised" => FALSE]_vars

\* C11's case: both crawls returned pages, several chunks were embedded and
\* the store was saved
C11_Witness ==
    /\ pc = "done"
    /\ Len(saved) = 1
    /\ returned[1] # <<>>
    /\ returned[2] # <<>>
    /\ Len(embedded) >= 3

(***************************************************************************)
(* Chunks of a page, and the text put together again from them.            *)
(***************************************************************************)
\* the chunk texts of page p among docs, in order
ChunksOf(p) ==
    LET own == SelectSeq(docs, LAMBDA d : d.source = p.url)
    IN  [i \in 1..Len(own) |-> own[i].page_content]

\* the first chunk followed by every later chunk without its leading o characters
Reassemble(chunks, o) ==
    IF chunks = <<>> THEN ""
    ELSE chunks[1]
         \o join("", [i \in 1..(Len(chunks) - 1) |->
                         SubSeq(chunks[i + 1], o + 1, Len(chunks[i + 1]))])

NoWhitespace(text) == \A i \in 1..Len(text) : CharAt(text, i) \notin Whitespace

\* the last o characters of each chunk are the first o characters of the next
SharesBoundary(chunks, o) ==
    \A i \in 1..(Len(chunks) - 1) :
        /\ Len(chunks[i]) >= o
        /\ Len(chunks[i + 1]) >= o
        /\ SubSeq(chunks[i], Len(chunks[i]) - o + 1, Len(chunks[i]))
              = SubSeq(chunks[i + 1], 1, o)

Lengths(chunks) == [i \in 1..Len(chunks) |-> Len(chunks[i])]

Scenario ==
    /\ pc = "split_ret"
    /\ Len(pages) = 1
    /\ Len(pages[1].text) = 2400
    /\ splitter[1].chunk_size = 1000
    /\ splitter[1].chunk_overlap = 150

RECURSIVE SinceLastCrawled(_)
SinceLastCrawled(lines) ==
    IF lines = <<>> \/ lines[Len(lines)].kind = "Crawled" THEN <<>>
    ELSE Append(SinceLastCrawled(SubSeq(lines, 1, Len(lines) - 1)), lines[Len(lines)])

\* the lines of out the second call of crawl_wiki wrote before it returned
SecondCrawlOut ==
    LET i == CHOOSE i \in CrawledAt : \A k \in CrawledAt : i <= k
        j == CHOOSE j \in CrawledAt : \A k \in CrawledAt : j >= k
    IN  SubSeq(out, i + 1, j - 1)

\* C14: every call of crawl_wiki starts with visited = {}, to_visit =
\* [start_url] and no record; while a call runs, visited holds only URLs that
\* this call fetched; and the second call's result, when nothing failed in it,
\* is the breadth-first order from its own root, whatever the first call
\* fetched or failed to fetch.
C14_CrawlStatePrivate ==
    /\ [](/\ out = <<>> => visited = {} /\ to_visit = <<start_url>> /\ pages = <<>>
          /\ pc = "loop" =>
                visited \subseteq
                    {l.url : l \in {SinceLastCrawled(out)[i] :
                                       i \in 1..Len(SinceLastCrawled(out))}}
          /\ (Len(returned) = 2
                 /\ \A i \in 1..Len(SecondCrawlOut) : ~IsError(SecondCrawlOut[i]))
                => Urls(returned[2])
                      = Take(BfsFrom(<<BASE_URL_GITHUB>>, {BASE_URL_GITHUB}),
                             GITHUB_MAX_PAGES))
    /\ [][pc # "loop" /\ pc' = "loop" =>
             /\ visited' = {}
             /\ to_visit' = <<start_url'>>
             /\ pages' = <<>>]_vars

\* C14's case: the second root was fetched during the first root's crawl and
\* again as the root of the second crawl
C14_Witness ==
    /\ Len(returned) = 2
    /\ \E k \in 1..Len(returned[1]) : returned[1][k].url = BASE_URL_GITHUB
    /\ Len(returned[2]) >= 2
    /\ returned[2][1].url = BASE_URL_GITHUB

Range(seq) == {seq[i] : i \in 1..Len(seq)}

\* C15 (as stated): when no fetch has failed, every whitelisted, non-excluded
\* link of every page that has a record is visited or pending; and when the
\* crawl has ended with max_pages larger than the site, every URL reachable
\* from start_url through such links was fetched and has a Page Record.
C15_Completeness ==
    NoFetchFailed =>
        /\ pc = "loop" =>
              \A k \in 1..Len(pages) :
                  Range(Successors(pages[k].url)) \subseteq visited \cup Range(to_visit)
        /\ (pc = "done" /\ max_pages > Len(BfsOrder)) =>
              /\ Range(BfsOrder) \subseteq Range(requests)
              /\ Range(BfsOrder) \subseteq Range(Urls(returned[1]))

\* the URLs of the accumulated records are pairwise distinct
DistinctRecords == \A i, j \in 1..Len(pages) : pages[i].url = pages[j].url => i = j

\* the failure came after visited.add and before pages.append (lines 61-65)
IsExtractError(line) == IsPageError(line) /\ ~IsFetchError(line)

\* C16 (as stated): at every loop-iteration boundary the URLs of the
\* accumulated Page Records are pairwise distinct and their set is visited, so
\* len(pages) = len(visited), whatever failures occurred.
C16_RecordsAreVisited ==
    /\ DistinctRecords
    /\ Range(Urls(pages)) = visited
    /\ Len(pages) = Cardinality(visited)

\* C16 (amended): at every loop-iteration boundary the URLs of the accumulated
\* Page Records are pairwise distinct and all in visited, and visited holds
\* beyond them exactly the URLs whose processing failed between visited.add and
\* pages.append; so len(pages) <= len(visited), with equality when no such
\* failure occurred, whatever fetches and link enumerations failed.
C16_RecordsWithinVisited ==
    /\ DistinctRecords
    /\ Range(Urls(pages)) \subseteq visited
    /\ visited \ Range(Urls(pages))
          = {out[i].url : i \in {k \in 1..Len(out) : IsExtractError(out[k])}}
    /\ Len(pages) <= Cardinality(visited)
    /\ (\A i \in 1..Len(out) : ~IsExtractError(out[i])) =>
          Len(pages) = Cardinality(visited)

\* C16's case: a fetch failed, a link enumeration failed and a text extraction
\* failed; records were kept, and visited holds their URLs and one more
C16_Witness ==
    /\ pc = "loop"
    /\ \E i \in 1..Len(out) : IsFetchError(out[i])
    /\ \E i \in 1..Len(out) : IsError(out[i]) /\ out[i].e = "ValueError"
    /\ \E i \in 1..Len(out) : IsExtractError(out[i])
    /\ Len(pages) >= 2
    /\ Cardinality(visited) = Len(pages) + 1

\* nothing has been dequeued yet: to_visit holds the initial start_url (no
\* entry is appended before a page has been requested)
InitialQueue == to_visit = <<start_url>> /\ requests = <<>>

\* the step dequeues a URL and drops it without a request (lines 53-54)
DiscardStep == pc = "loop" /\ pc' = "loop" /\ to_visit' # to_visit /\ requests' = requests

\* C17: once the initial start_url has been dequeued, every entry of to_visit
\* starts with a DOMAIN_WHITELIST prefix and is not excluded by
\* is_excluded_url; an entry is not in visited at the moment it is enqueued;
\* and a dequeued URL that the exclusion check rejects is the initial start_url.
C17_QueueEntriesQualified ==
    /\ [](~InitialQueue =>
             \A u \in Range(to_visit) : AllowedPrefix(u) /\ ~is_excluded_url(u))
    /\ [][pc = "loop" /\ pc' = "loop" =>
             \A i \in Len(to_visit)..Len(to_visit') : to_visit'[i] \notin visited']_vars
    /\ [][(DiscardStep /\ is_excluded_url(Head(to_visit))) =>
             InitialQueue /\ to_visit' = <<>>]_vars

\* C17's case: a page with links to a language mirror, an image and an edit
\* action was fetched, and only its other link is pending
C17_Witness ==
    /\ pc = "loop"
    /\ requests = <<BASE_URL_WIKI>>
    /\ site[BASE_URL_WIKI].hrefs = <<"/Power_users_hub/de", "/logo.PNG", U_EDIT, "/Scripts">>
    /\ pages # <<>>
    /\ to_visit = <<U_SCRIPTS>>

====
